---- MODULE Spec2Model ----
(***************************************************************************)
(* Model of count_intercom_users.py: the profile fetcher (fetch_all_users), *)
(* the grouping of profiles by email and product line, the categorization  *)
(* loop with its subscription and fee-waiver resolution, the shuffle and    *)
(* the result record.                                                       *)
(*                                                                          *)
(* A profile ("user") is a function from the keys the JSON object carries   *)
(* to their values; an absent key and a null value are the same thing to    *)
(* every dict.get of the script, so both are modelled as an absent key.     *)
(* Texts that the script inspects character by character (external_id,      *)
(* lsat_purchase_names) are sequences of one-character strings.             *)
(***************************************************************************)
EXTENDS Integers, Sequences, FiniteSets, TLC

\* ------------------------------------------------------------------ bounds
MaxProfiles == 3
MaxSwapDist == 1
MaxBucket == 11
MaxPages == 3
MaxPageUsers == 2

\* --------------------------------------------------------------- constants
SAMPLE_SIZE == 10
max_retries == 5

FEE_WAIVER_TAG_ID == "11173348"

\* ------------------------------------------------------------ dict helpers
Has(d, k) == k \in DOMAIN d

custom_attributes(user) ==
    IF Has(user, "custom_attributes") THEN user["custom_attributes"] ELSE <<>>

\* ----------------------------------------------------- subscription ranking
SUBSCRIPTION_RANKS ==
    [k \in {"admin", "Administrator", "Staff", "coach", "live", "core", "free",
            "Coaching", "Live", "Yearly + Live", "Core", "Free Trial"} |->
        CASE k \in {"admin", "Administrator", "Staff"} -> 5
          [] k \in {"coach", "Coaching"} -> 4
          [] k \in {"live", "Live", "Yearly + Live"} -> 3
          [] k \in {"core", "Core"} -> 2
          [] k \in {"free", "Free Trial"} -> 1]

get_subscription_rank(user, is_7s2) ==
    LET ca == custom_attributes(user)
        key == IF is_7s2 THEN "sub" ELSE "lsat_course"
    IN  IF ~Has(ca, key) \/ ca[key] = "" THEN 0
        ELSE IF ca[key] \in DOMAIN SUBSCRIPTION_RANKS
             THEN SUBSCRIPTION_RANKS[ca[key]] ELSE 0

max(a, b) == IF a >= b THEN a ELSE b

RECURSIVE max_rank_over(_, _, _)
max_rank_over(users, is_7s2, max_rank) ==
    IF users = <<>> THEN max_rank
    ELSE max_rank_over(Tail(users), is_7s2,
                       max(max_rank, get_subscription_rank(Head(users), is_7s2)))

\* variant: the rank of the first profile instead of the maximum
get_highest_subscription_first_only(users_7s1, users_7s2) ==
    IF users_7s1 # <<>> THEN get_subscription_rank(Head(users_7s1), FALSE)
    ELSE IF users_7s2 # <<>> THEN get_subscription_rank(Head(users_7s2), TRUE)
    ELSE 0

get_highest_subscription(users_7s1, users_7s2) ==
    max_rank_over(users_7s2, TRUE, max_rank_over(users_7s1, FALSE, 0))

rank_to_subscription(rank) ==
    CASE rank = 5 -> "Admin"
      [] rank = 4 -> "Coach"
      [] rank = 3 -> "Live"
      [] rank = 2 -> "Core"
      [] rank = 1 -> "Free"
      [] rank = 0 -> "Unknown"
      [] OTHER -> "Unknown"

\* --------------------------------------------------------------- fee waiver
UPPER == <<"A","B","C","D","E","F","G","H","I","J","K","L","M",
           "N","O","P","Q","R","S","T","U","V","W","X","Y","Z">>
LOWER == <<"a","b","c","d","e","f","g","h","i","j","k","l","m",
           "n","o","p","q","r","s","t","u","v","w","x","y","z">>

lower_char(c) ==
    IF \E i \in DOMAIN UPPER : UPPER[i] = c
    THEN LOWER[CHOOSE i \in DOMAIN UPPER : UPPER[i] = c]
    ELSE c

lower(s) == [i \in DOMAIN s |-> lower_char(s[i])]

\* Python's "needle in hay" for strings
contains(needle, hay) ==
    \E k \in 0..(Len(hay) - Len(needle)) :
        SubSeq(hay, k + 1, k + Len(needle)) = needle

WAIVER == <<"w","a","i","v","e","r">>

\* variant: the purchase text is searched without lower()
is_fee_waiver_case_sensitive(user) ==
    LET tags == IF Has(user, "tags") THEN user["tags"] ELSE <<>>
    IN  \/ \E i \in DOMAIN tags : tags[i] = FEE_WAIVER_TAG_ID
        \/ /\ Has(custom_attributes(user), "lsat_purchase_names")
           /\ contains(WAIVER, custom_attributes(user)["lsat_purchase_names"])

is_fee_waiver(user) ==
    LET tags == IF Has(user, "tags") THEN user["tags"] ELSE <<>>
    IN  \/ \E i \in DOMAIN tags : tags[i] = FEE_WAIVER_TAG_ID
        \/ /\ Has(custom_attributes(user), "lsat_purchase_names")
           /\ contains(WAIVER, lower(custom_attributes(user)["lsat_purchase_names"]))


\* ------------------------------------------------------ the profiles drawn
\* accurate_users, the profiles left by the last_seen_at filter, arrive one by
\* one; any list of up to MaxProfiles of the profiles below can arrive.
\* Profiles the environment can deliver, before email and id are filled in.
\* external_id "user7" and "us" do not start with "usr"; "usr1" does.
ProfileShapes ==
    { [external_id |-> <<"u","s","e","r","7">>, has_id |-> TRUE,
       custom_attributes |-> [lsat_course |-> "Core", sub |-> "coach"]],
      [external_id |-> <<"u","s">>, has_id |-> TRUE,
       custom_attributes |-> [lsat_course |-> "Live",
                              lsat_purchase_names |-> <<"F","e","e"," ","W","a","i","v","e","r">>]],
      [external_id |-> <<"u","s","e","r","7">>, has_id |-> FALSE],
      [external_id |-> <<"u","s","e","r","7">>, has_id |-> TRUE,
       tags |-> <<"999", FEE_WAIVER_TAG_ID>>,
       custom_attributes |-> [lsat_course |-> "coach"]],
      [external_id |-> <<"u","s","r","1">>, has_id |-> TRUE,
       custom_attributes |-> [sub |-> "coach", lsat_course |-> "Core"]],
      [external_id |-> <<"u","s","r","1">>, has_id |-> TRUE,
       tags |-> <<FEE_WAIVER_TAG_ID>>,
       custom_attributes |-> [sub |-> "free"]],
      [external_id |-> <<"u","s","r","1">>, has_id |-> TRUE,
       tags |-> <<"999">>,
       custom_attributes |-> [sub |-> "",
                              lsat_purchase_names |-> <<"L","i","v","e"," ","P","l","a","n">>]],
      [has_id |-> TRUE, tags |-> <<FEE_WAIVER_TAG_ID>>,
       custom_attributes |-> [sub |-> "admin", lsat_course |-> "Coaching"]],
      [external_id |-> <<>>, has_id |-> TRUE,
       custom_attributes |-> [lsat_purchase_names |-> <<"W","A","I","V","E","R">>]] }

\* "" is the empty email, "-" stands for a profile without the email key
Emails == {"a@x", "b@x"}
EmailInputs == Emails \cup {"", "-"}

\* ------------------------------------------------------------------- state
VARIABLES
    pc,                             \* position of the main script
    accurate_users_len,             \* len(accurate_users) consumed so far
    all_users_by_email,             \* email -> ["7S1", "7S2", "Other" -> profiles]
    email_order,                    \* insertion order of the dict's keys
    idx,                            \* emails the categorization loop has processed
    only_7s2, only_7s1, both,
    emails_with_multiple_profiles,
    profiles_in_both_category,
    only_7s1_profile_ids,
    subscription_counts,
    highest_rank, subscription, fee_waiver,
    shuf,                           \* random.shuffle in progress: list and index
    result,
    \* fetch_all_users
    fetch_pc,                       \* "request", "returned" or "aborted" (sys.exit)
    server_pages,                   \* the pages the API holds for the query
    all_users, starting_after, page, retry_count,
    response_status,                \* status of the last response, 0 before any
    \* one call of get_subscription_rank: arguments and return value
    rank_call

mainvars == <<pc, accurate_users_len, all_users_by_email, email_order, idx,
              only_7s2, only_7s1, both, emails_with_multiple_profiles,
              profiles_in_both_category, only_7s1_profile_ids,
              subscription_counts, highest_rank, subscription, fee_waiver,
              shuf, result>>

fetchvars == <<fetch_pc, server_pages, all_users, starting_after, page,
               retry_count, response_status>>

rankvars == <<rank_call>>

subscription_buckets == {"Unknown", "Admin", "Coach", "Live", "Core", "Free"}
Categories == {"only_7s2", "only_7s1", "both"}

ZeroCounts ==
    [c \in Categories |->
        [sub \in subscription_buckets |-> [regular |-> 0, fee_waiver |-> 0]]]

InitMain ==
    /\ pc = "group"
    /\ accurate_users_len = 0
    /\ all_users_by_email = <<>>
    /\ email_order = <<>>
    /\ idx = 0
    /\ only_7s2 = <<>> /\ only_7s1 = <<>> /\ both = <<>>
    /\ emails_with_multiple_profiles = 0
    /\ profiles_in_both_category = 0
    /\ only_7s1_profile_ids = <<>>
    /\ subscription_counts = ZeroCounts
    /\ highest_rank = 0 /\ subscription = "Unknown" /\ fee_waiver = FALSE
    /\ shuf = [k |-> 0, i |-> 0]
    /\ result = <<>>

\* ---------------------------------------------------------------- grouping
starts_with_usr(external_id) ==
    Len(external_id) >= 3 /\ SubSeq(external_id, 1, 3) = <<"u","s","r">>

group_of(user) ==
    IF Has(user, "external_id") /\ user["external_id"] # <<>>
    THEN IF starts_with_usr(user["external_id"]) THEN "7S2" ELSE "7S1"
    ELSE "Other"

EmptyGroups == [g \in {"7S1", "7S2", "Other"} |-> <<>>]

\* The profile as fetched: shape, email and a unique id (named after the
\* place the profile takes in the grouped map).
MakeUser(shape, e, uid) ==
    LET keys == (DOMAIN shape \ {"has_id"})
        base == [k \in keys |-> shape[k]]
        withEmail == IF e = "-" THEN base ELSE base @@ [email |-> e]
    IN  IF shape["has_id"] THEN withEmail @@ [id |-> uid] ELSE withEmail

GroupUser(shape, e) ==
    /\ pc = "group"
    /\ accurate_users_len' = accurate_users_len + 1
    /\ IF e \in {"", "-"}
       THEN UNCHANGED <<all_users_by_email, email_order>>
       ELSE LET g == group_of(shape)
                old == IF e \in DOMAIN all_users_by_email
                       THEN all_users_by_email[e] ELSE EmptyGroups
                user == MakeUser(shape, e, <<e, g, Len(old[g]) + 1>>)
                new == [old EXCEPT ![g] = Append(@, user)]
            IN  /\ all_users_by_email' =
                     [x \in DOMAIN all_users_by_email \cup {e} |->
                         IF x = e THEN new ELSE all_users_by_email[x]]
                /\ email_order' = IF e \in DOMAIN all_users_by_email
                                  THEN email_order ELSE Append(email_order, e)
    /\ UNCHANGED <<fetchvars, rankvars,
                   pc, idx, only_7s2, only_7s1, both,
                   emails_with_multiple_profiles, profiles_in_both_category,
                   only_7s1_profile_ids, subscription_counts, highest_rank,
                   subscription, fee_waiver, shuf, result>>

EndGroup ==
    /\ pc = "group"
    /\ pc' = "categorize"
    /\ UNCHANGED <<fetchvars, rankvars,
                   accurate_users_len, all_users_by_email, email_order, idx,
                   only_7s2, only_7s1, both, emails_with_multiple_profiles,
                   profiles_in_both_category, only_7s1_profile_ids,
                   subscription_counts, highest_rank, subscription, fee_waiver,
                   shuf, result>>

\* ----------------------------------------------------------- categorization
total_profiles_for_email(users) == Len(users["7S1"]) + Len(users["7S2"])

\* variant: the branches do not exclude the other product line
category_no_exclusion(users) ==
    IF Len(users["7S2"]) > 0 THEN "only_7s2"
    ELSE IF Len(users["7S1"]) > 0 THEN "only_7s1"
    ELSE "none"

category_of(users) ==
    LET has_active_7s1 == Len(users["7S1"]) > 0
        has_active_7s2 == Len(users["7S2"]) > 0
    IN  IF has_active_7s2 /\ ~has_active_7s1 THEN "only_7s2"
        ELSE IF has_active_7s1 /\ ~has_active_7s2 THEN "only_7s1"
        ELSE IF has_active_7s1 /\ has_active_7s2 THEN "both"
        ELSE "none"

group_fee_waiver(users) ==
    LET us == users["7S1"] \o users["7S2"]
    IN  \E i \in DOMAIN us : is_fee_waiver(us[i])

RECURSIVE profile_ids_of(_)
profile_ids_of(users_7s1) ==
    IF users_7s1 = <<>> THEN <<>>
    ELSE (IF Has(Head(users_7s1), "id") THEN <<Head(users_7s1)["id"]>> ELSE <<>>)
         \o profile_ids_of(Tail(users_7s1))

\* variant: ids are collected in the both branch as well
ids_collected_also_for_both(cat, users) ==
    IF cat \in {"only_7s1", "both"} THEN profile_ids_of(users["7S1"]) ELSE <<>>

ids_collected(cat, users) ==
    IF cat = "only_7s1" THEN profile_ids_of(users["7S1"]) ELSE <<>>

\* variant: the both total counts emails, not profiles
both_profiles_added_one_per_email(cat, users) ==
    IF cat = "both" THEN 1 ELSE 0

both_profiles_added(cat, users) ==
    IF cat = "both" THEN total_profiles_for_email(users) ELSE 0

\* variant: the regular cell is incremented without the else
counts_incremented_no_else(counts, cat, sub, fw) ==
    IF cat = "none" THEN counts
    ELSE LET waived == IF fw THEN [counts EXCEPT ![cat][sub]["fee_waiver"] = @ + 1]
                       ELSE counts
         IN  [waived EXCEPT ![cat][sub]["regular"] = @ + 1]

\* the if fee_waiver / else of the branch the email falls in
counts_incremented(counts, cat, sub, fw) ==
    IF cat = "none" THEN counts
    ELSE IF fw THEN [counts EXCEPT ![cat][sub]["fee_waiver"] = @ + 1]
    ELSE [counts EXCEPT ![cat][sub]["regular"] = @ + 1]

CategorizeEmail ==
    /\ pc = "categorize"
    /\ idx < Len(email_order)
    /\ LET email == email_order[idx + 1]
           users == all_users_by_email[email]
           rank == get_highest_subscription(users["7S1"], users["7S2"])
           sub == rank_to_subscription(rank)
           fw == group_fee_waiver(users)
           cat == category_of(users)
       IN  /\ emails_with_multiple_profiles' =
                IF total_profiles_for_email(users) > 1
                THEN emails_with_multiple_profiles + 1
                ELSE emails_with_multiple_profiles
           /\ highest_rank' = rank
           /\ subscription' = sub
           /\ fee_waiver' = fw
           /\ only_7s2' = IF cat = "only_7s2" THEN Append(only_7s2, email) ELSE only_7s2
           /\ only_7s1' = IF cat = "only_7s1" THEN Append(only_7s1, email) ELSE only_7s1
           /\ both' = IF cat = "both" THEN Append(both, email) ELSE both
           /\ only_7s1_profile_ids' = only_7s1_profile_ids \o ids_collected(cat, users)
           /\ profiles_in_both_category' =
                profiles_in_both_category + both_profiles_added(cat, users)
           /\ subscription_counts' = counts_incremented(subscription_counts, cat, sub, fw)
    /\ idx' = idx + 1
    /\ UNCHANGED <<fetchvars, rankvars,
                   pc, accurate_users_len, all_users_by_email, email_order,
                   shuf, result>>

\* ------------------------------------------------------------------ shuffle
ShuffleOrder == <<"only_7s2", "only_7s1", "both">>

bucket(name) ==
    CASE name = "only_7s2" -> only_7s2
      [] name = "only_7s1" -> only_7s1
      [] name = "both" -> both

\* x[i], x[j] = x[j], x[i] with 0-based i, j
swap(x, i, j) ==
    [n \in DOMAIN x |-> IF n = i + 1 THEN x[j + 1]
                        ELSE IF n = j + 1 THEN x[i + 1] ELSE x[n]]

\* the values randbelow(i + 1) may take, cut to the MaxSwapDist nearest to i
SwapTargets(i) == {j \in 0..i : j >= i - MaxSwapDist}

BeginShuffle ==
    /\ pc = "categorize"
    /\ idx = Len(email_order)
    /\ pc' = "shuffle"
    /\ shuf' = [k |-> 1, i |-> Len(bucket(ShuffleOrder[1])) - 1]
    /\ UNCHANGED <<fetchvars, rankvars,
                   accurate_users_len, all_users_by_email, email_order, idx,
                   only_7s2, only_7s1, both, emails_with_multiple_profiles,
                   profiles_in_both_category, only_7s1_profile_ids,
                   subscription_counts, highest_rank, subscription, fee_waiver,
                   result>>

shuffle_step(x, i, j) == swap(x, i, j)

ShuffleSwap ==
    /\ pc = "shuffle"
    /\ shuf.i >= 1
    /\ \E j \in SwapTargets(shuf.i) :
         LET name == ShuffleOrder[shuf.k]
             x == shuffle_step(bucket(name), shuf.i, j)
         IN  /\ only_7s2' = IF name = "only_7s2" THEN x ELSE only_7s2
             /\ only_7s1' = IF name = "only_7s1" THEN x ELSE only_7s1
             /\ both' = IF name = "both" THEN x ELSE both
    /\ shuf' = [shuf EXCEPT !.i = @ - 1]
    /\ UNCHANGED <<fetchvars, rankvars,
                   pc, accurate_users_len, all_users_by_email, email_order, idx,
                   emails_with_multiple_profiles, profiles_in_both_category,
                   only_7s1_profile_ids, subscription_counts, highest_rank,
                   subscription, fee_waiver, result>>

ShuffleNext ==
    /\ pc = "shuffle"
    /\ shuf.i < 1
    /\ shuf.k < 3
    /\ shuf' = [k |-> shuf.k + 1, i |-> Len(bucket(ShuffleOrder[shuf.k + 1])) - 1]
    /\ UNCHANGED <<fetchvars, rankvars,
                   pc, accurate_users_len, all_users_by_email, email_order, idx,
                   only_7s2, only_7s1, both, emails_with_multiple_profiles,
                   profiles_in_both_category, only_7s1_profile_ids,
                   subscription_counts, highest_rank, subscription, fee_waiver,
                   result>>

\* -------------------------------------------------------------------- result
\* variant: the whole list instead of the [:10] slice
sample_uncapped(x) == x

sample(x) == SubSeq(x, 1, IF Len(x) < SAMPLE_SIZE THEN Len(x) ELSE SAMPLE_SIZE)

\* variant: only bucketed emails are counted
total_unique_emails_bucketed_only(users_by_email) ==
    Len(only_7s2) + Len(only_7s1) + Len(both)

total_unique_emails(users_by_email) == Cardinality(DOMAIN users_by_email)

BuildResult ==
    /\ pc = "shuffle"
    /\ shuf.i < 1
    /\ shuf.k = 3
    /\ pc' = "done"
    /\ result' =
         [total_unique_emails |-> total_unique_emails(all_users_by_email),
          total_profiles_in_window |-> accurate_users_len,
          emails_with_multiple_profiles |-> emails_with_multiple_profiles,
          only_7s2 |-> [count |-> Len(only_7s2), sample |-> sample(only_7s2),
                        subscription_breakdown |-> subscription_counts["only_7s2"]],
          only_7s1 |-> [count |-> Len(only_7s1), sample |-> sample(only_7s1),
                        subscription_breakdown |-> subscription_counts["only_7s1"]],
          both |-> [count |-> Len(both),
                    total_profiles_in_this_category |-> profiles_in_both_category,
                    sample |-> sample(both),
                    subscription_breakdown |-> subscription_counts["both"]]]
    /\ UNCHANGED <<fetchvars, rankvars,
                   accurate_users_len, all_users_by_email, email_order, idx,
                   only_7s2, only_7s1, both, emails_with_multiple_profiles,
                   profiles_in_both_category, only_7s1_profile_ids,
                   subscription_counts, highest_rank, subscription, fee_waiver,
                   shuf>>



\* ---------------------------------------------------------- fetch_all_users
\* The API holds 1..MaxPages pages for the query; the users of page p are
\* named <<p, 1>>, <<p, 2>>, ...  The cursor the API hands out with page p is
\* p; starting_after = 0 is Python's None.
RECURSIVE PageSets(_)
PageSets(n) ==
    IF n = 0 THEN {<<>>}
    ELSE {Append(ps, [q \in 1..k |-> <<n, q>>]) :
            ps \in PageSets(n - 1), k \in 0..MaxPageUsers}

ServerData == UNION {PageSets(n) : n \in 1..MaxPages}

InitFetchVars ==
    /\ fetch_pc = "request"
    /\ server_pages \in ServerData
    /\ all_users = <<>>
    /\ starting_after = 0
    /\ page = 1
    /\ retry_count = 0
    /\ response_status = 0

\* the state fetch_all_users leaves after a single empty page
FetchDone ==
    /\ fetch_pc = "returned"
    /\ server_pages = << <<>> >>
    /\ all_users = <<>>
    /\ starting_after = 0
    /\ page = 2
    /\ retry_count = 0
    /\ response_status = 200

\* variant: the retry budget is one short
retry_limit_reached_off_by_one(count) == count >= max_retries - 1

retry_limit_reached(count) == count >= max_retries

\* response.status_code == 429 and the retry budget is left
FetchRateLimited ==
    /\ fetch_pc = "request"
    /\ ~retry_limit_reached(retry_count)
    /\ response_status' = 429
    /\ retry_count' = retry_count + 1
    /\ UNCHANGED <<fetch_pc, server_pages, all_users, starting_after, page>>
    /\ UNCHANGED <<mainvars, rankvars>>

\* response.status_code == 429 with the retry budget used up: sys.exit(1)
FetchRateLimitAbort ==
    /\ fetch_pc = "request"
    /\ retry_limit_reached(retry_count)
    /\ response_status' = 429
    /\ fetch_pc' = "aborted"
    /\ UNCHANGED <<server_pages, all_users, starting_after, page, retry_count>>
    /\ UNCHANGED <<mainvars, rankvars>>

\* any other bad status: the counter is reset, raise_for_status raises
FetchHttpError ==
    /\ fetch_pc = "request"
    /\ \E status \in {400, 500} : response_status' = status
    /\ retry_count' = 0
    /\ fetch_pc' = "aborted"
    /\ UNCHANGED <<server_pages, all_users, starting_after, page>>
    /\ UNCHANGED <<mainvars, rankvars>>

\* a 200 response whose body carries 'errors'
FetchApiErrors ==
    /\ fetch_pc = "request"
    /\ response_status' = 200
    /\ retry_count' = 0
    /\ fetch_pc' = "aborted"
    /\ UNCHANGED <<server_pages, all_users, starting_after, page>>
    /\ UNCHANGED <<mainvars, rankvars>>

\* requests.post raises before any response arrives (-1: no response)
FetchException ==
    /\ fetch_pc = "request"
    /\ response_status' = -1
    /\ fetch_pc' = "aborted"
    /\ UNCHANGED <<server_pages, all_users, starting_after, page, retry_count>>
    /\ UNCHANGED <<mainvars, rankvars>>

extend(users, users_on_page) == users \o users_on_page

\* a 200 response with the page that follows the cursor
FetchPage ==
    /\ fetch_pc = "request"
    /\ LET served == starting_after + 1
           users_on_page == server_pages[served]
           has_next == served < Len(server_pages)
       IN  /\ response_status' = 200
           /\ retry_count' = 0
           /\ all_users' = extend(all_users, users_on_page)
           /\ page' = page + 1
           /\ IF has_next
              THEN starting_after' = served /\ UNCHANGED fetch_pc
              ELSE fetch_pc' = "returned" /\ UNCHANGED starting_after
    /\ UNCHANGED server_pages
    /\ UNCHANGED <<mainvars, rankvars>>

\* ----------------------------------------- get_subscription_rank, one call
RawValues == DOMAIN SUBSCRIPTION_RANKS \cup {"", "Gold", "LIVE", "-"}

\* "-" stands for a key the custom attributes do not carry
RankAttributes(s, l) ==
    [k \in (IF s = "-" THEN {} ELSE {"sub"}) \cup
           (IF l = "-" THEN {} ELSE {"lsat_course"}) |->
        IF k = "sub" THEN s ELSE l]

RankUsers ==
    {[custom_attributes |-> RankAttributes(s, l)] : s \in RawValues, l \in RawValues}
        \cup {[email |-> "a@x"]}

NoRankCall == [user |-> [email |-> "a@x"], is_7s2 |-> FALSE, ret |-> 0]

CallRank ==
    /\ rank_call.ret = -1
    /\ rank_call' = [rank_call EXCEPT
                        !.ret = get_subscription_rank(rank_call.user, rank_call.is_7s2)]
    /\ UNCHANGED <<mainvars, fetchvars>>

\* --------------------------------------------------- bulk input for sampling
\* One profile per email (two for an email of both product lines), so that a
\* bucket can outgrow the sample.
EmailPool == <<"e01", "e02", "e03", "e04", "e05", "e06", "e07",
               "e08", "e09", "e10", "e11", "e12", "e13", "e14">>

Shape7S1 == [external_id |-> <<"u","s","e","r","7">>, has_id |-> TRUE,
             custom_attributes |-> [lsat_course |-> "Core", sub |-> "coach"]]
Shape7S2 == [external_id |-> <<"u","s","r","1">>, has_id |-> TRUE,
             custom_attributes |-> [sub |-> "coach", lsat_course |-> "Core"]]

BulkInputs ==
    LET n == Len(email_order)
        first == IF n = 0 THEN EmptyGroups ELSE all_users_by_email[email_order[1]]
        last == IF n = 0 THEN EmptyGroups ELSE all_users_by_email[email_order[n]]
    IN  \* a new email, of the product line the first email started with
        {<<sh, EmailPool[n + 1]>> : sh \in
            {sh \in {Shape7S1, Shape7S2} :
                /\ n < MaxBucket
                /\ n > 0 => Len(first[group_of(sh)]) > 0
                /\ n > 0 => category_of(first) = category_of(last)}}
        \cup
        \* the product-B profile of the latest email, when the first has both
        {<<Shape7S2, email_order[n]>> : x \in
            {x \in {1} : /\ n > 0
                         /\ category_of(last) = "only_7s1"
                         /\ n > 1 => category_of(first) = "both"}}

\* ------------------------------------------------------------ specifications
vars == <<mainvars, fetchvars, rankvars>>

Init ==
    /\ InitMain
    /\ FetchDone
    /\ rank_call = NoRankCall

Next ==
    \/ \E shape \in ProfileShapes, e \in EmailInputs :
          accurate_users_len < MaxProfiles /\ GroupUser(shape, e)
    \/ EndGroup
    \/ CategorizeEmail
    \/ BeginShuffle
    \/ ShuffleSwap
    \/ ShuffleNext
    \/ BuildResult

Spec == Init /\ [][Next]_vars

\* the pipeline on bulk input, for the sample cap
NextSample ==
    \/ \E in \in BulkInputs : GroupUser(in[1], in[2])
    \/ EndGroup
    \/ CategorizeEmail
    \/ BeginShuffle
    \/ ShuffleSwap
    \/ ShuffleNext
    \/ BuildResult

SpecSample == Init /\ [][NextSample]_vars

\* fetch_all_users against every bounded data set and response sequence
InitFetch ==
    /\ InitMain
    /\ InitFetchVars
    /\ rank_call = NoRankCall

NextFetch ==
    \/ FetchRateLimited
    \/ FetchRateLimitAbort
    \/ FetchHttpError
    \/ FetchApiErrors
    \/ FetchException
    \/ FetchPage

SpecFetch == InitFetch /\ [][NextFetch]_vars

\* get_subscription_rank on every bounded profile and product line
InitRank ==
    /\ InitMain
    /\ FetchDone
    /\ rank_call \in [user : RankUsers, is_7s2 : BOOLEAN, ret : {-1}]

NextRank == CallRank

SpecRank == InitRank /\ [][NextRank]_vars


\* =================================================================== claims
SeqSet(x) == {x[i] : i \in DOMAIN x}
Count(v, x) == Cardinality({i \in DOMAIN x : x[i] = v})
Bit(b) == IF b THEN 1 ELSE 0

GroupedEmails == DOMAIN all_users_by_email
ProcessedEmails == {email_order[i] : i \in 1..idx}
NumA(e) == Len(all_users_by_email[e]["7S1"])
NumB(e) == Len(all_users_by_email[e]["7S2"])
NumOther(e) == Len(all_users_by_email[e]["Other"])
OtherOnly(e) == NumA(e) = 0 /\ NumB(e) = 0 /\ NumOther(e) >= 1
InNoBucket(e) == e \notin SeqSet(only_7s1) \cup SeqSet(only_7s2) \cup SeqSet(both)

\* C1: every email the categorization loop has processed is in exactly one of
\* only_7s1 (>= 1 product-A profile, no product-B profile), only_7s2
\* (symmetric), both (>= 1 of each) or no bucket (only Other profiles), once;
\* the buckets hold nothing else.
C1_ExactlyOneCategory ==
    /\ \A e \in ProcessedEmails :
        /\ Count(e, only_7s1) = Bit(NumA(e) >= 1 /\ NumB(e) = 0)
        /\ Count(e, only_7s2) = Bit(NumB(e) >= 1 /\ NumA(e) = 0)
        /\ Count(e, both) = Bit(NumA(e) >= 1 /\ NumB(e) >= 1)
        /\ InNoBucket(e) <=> OtherOnly(e)
        /\ Count(e, only_7s1) + Count(e, only_7s2) + Count(e, both) <= 1
    /\ SeqSet(only_7s1) \cup SeqSet(only_7s2) \cup SeqSet(both) \subseteq ProcessedEmails

C1_Witness ==
    /\ pc = "done"
    /\ \E e \in GroupedEmails : OtherOnly(e) /\ InNoBucket(e)
    /\ \E e \in GroupedEmails : NumA(e) >= 1 /\ NumB(e) >= 1 /\ Count(e, both) = 1

\* C2: the result's total_unique_emails is the sum of the three bucket counts
\* plus the number of emails whose profiles are all of product line Other.
C2_TotalUniqueEmails ==
    pc = "done" =>
        result.total_unique_emails =
            result.only_7s1.count + result.only_7s2.count + result.both.count
            + Cardinality({e \in GroupedEmails : OtherOnly(e)})

C2_Witness ==
    /\ pc = "done"
    /\ result.total_unique_emails = 2
    /\ result.only_7s2.count = 1
    /\ \E e \in GroupedEmails : OtherOnly(e)

TierName == [r \in 0..5 |-> <<"Unknown", "Free", "Core", "Live", "Coach", "Admin">>[r + 1]]

RanksOf(e) ==
    {get_subscription_rank(u, FALSE) : u \in SeqSet(all_users_by_email[e]["7S1"])}
        \cup {get_subscription_rank(u, TRUE) : u \in SeqSet(all_users_by_email[e]["7S2"])}

IsGroupTier(r, e) ==
    /\ \A q \in RanksOf(e) : q <= r
    /\ IF RanksOf(e) = {} THEN r = 0 ELSE r \in RanksOf(e)

CellsChanged ==
    {<<c, t>> \in Categories \X subscription_buckets :
        subscription_counts'[c][t] # subscription_counts[c][t]}

\* C3: the step that categorizes an email resolves, as its tier, the maximum
\* of get_subscription_rank over the email's product-A and product-B profiles
\* (0, Unknown, when there is none or all are Unknown), and the breakdown
\* cell it increments is the cell of that tier.
C3_GroupTierIsMax ==
    [][ idx' = idx + 1 =>
          LET e == email_order[idx + 1]
          IN  /\ IsGroupTier(highest_rank', e)
              /\ subscription' = TierName[highest_rank']
              /\ \A ct \in CellsChanged : ct[2] = TierName[highest_rank']
              /\ e \in SeqSet(only_7s1') \cup SeqSet(only_7s2') \cup SeqSet(both')
                    => CellsChanged # {} ]_vars

C3_Witness ==
    /\ idx > 0
    /\ highest_rank = 4
    /\ subscription_counts["both"]["Coach"]["regular"] = 1
    /\ LET e == email_order[idx]
       IN  /\ NumA(e) = 1 /\ NumB(e) = 1
           /\ get_subscription_rank(all_users_by_email[e]["7S1"][1], FALSE) = 2
           /\ get_subscription_rank(all_users_by_email[e]["7S2"][1], TRUE) = 4

HasWaiverTag(u) ==
    Has(u, "tags") /\ FEE_WAIVER_TAG_ID \in SeqSet(u["tags"])

\* some six consecutive characters spell w-a-i-v-e-r in either case
MentionsWaiver(u) ==
    /\ Has(u, "custom_attributes")
    /\ Has(u["custom_attributes"], "lsat_purchase_names")
    /\ LET text == u["custom_attributes"]["lsat_purchase_names"]
       IN  \E k \in 0..(Len(text) - 6) :
              \A i \in 1..6 :
                 text[k + i] \in {<<"w","a","i","v","e","r">>[i],
                                  <<"W","A","I","V","E","R">>[i]}

ProductProfiles(e) ==
    SeqSet(all_users_by_email[e]["7S1"]) \cup SeqSet(all_users_by_email[e]["7S2"])

\* C4: the step that categorizes an email sets the fee-waiver flag iff some
\* product-A or product-B profile of the email carries the waiver tag id or
\* has a purchase text containing "waiver" in any case; only a fee_waiver
\* cell is incremented when the flag is set, only a regular cell otherwise.
C4_FeeWaiverIsAny ==
    [][ idx' = idx + 1 =>
          LET e == email_order[idx + 1]
          IN  /\ fee_waiver' <=>
                   \E u \in ProductProfiles(e) : HasWaiverTag(u) \/ MentionsWaiver(u)
              /\ \A ct \in CellsChanged :
                   LET old == subscription_counts[ct[1]][ct[2]]
                       new == subscription_counts'[ct[1]][ct[2]]
                   IN  IF fee_waiver'
                       THEN new = [old EXCEPT !.fee_waiver = @ + 1]
                       ELSE new = [old EXCEPT !.regular = @ + 1] ]_vars

C4_Witness ==
    /\ idx > 0
    /\ fee_waiver
    /\ LET e == email_order[idx]
       IN  /\ NumA(e) = 2 /\ NumB(e) = 0
           /\ ~HasWaiverTag(all_users_by_email[e]["7S1"][1])
           /\ ~MentionsWaiver(all_users_by_email[e]["7S1"][1])
           /\ ~HasWaiverTag(all_users_by_email[e]["7S1"][2])
           /\ MentionsWaiver(all_users_by_email[e]["7S1"][2])
           /\ subscription_counts["only_7s1"][subscription]["fee_waiver"] = 1

\* C5: emails_with_multiple_profiles is the number of grouped emails with more
\* than one profile in total, product-A, product-B and Other alike.
C5_MultipleProfilesCountsOther ==
    pc = "done" =>
        emails_with_multiple_profiles =
            Cardinality({e \in GroupedEmails : NumA(e) + NumB(e) + NumOther(e) > 1})

VOCABULARY_7S2 == {"admin", "Administrator", "Staff", "coach", "live", "core", "free"}
VOCABULARY_7S1 == {"Coaching", "Live", "Yearly + Live", "Core", "Free Trial"}

\* C6: get_subscription_rank returns the tier the profile's own product line's
\* vocabulary gives its raw value ('sub' for 7S2, 'lsat_course' for 7S1), and
\* 0 when the value is absent, empty or outside that vocabulary.
C6_RankFromOwnVocabulary ==
    rank_call.ret # -1 =>
        LET ca == custom_attributes(rank_call.user)
            key == IF rank_call.is_7s2 THEN "sub" ELSE "lsat_course"
            own == IF rank_call.is_7s2 THEN VOCABULARY_7S2 ELSE VOCABULARY_7S1
        IN  rank_call.ret =
                IF Has(ca, key) /\ ca[key] \in own
                THEN SUBSCRIPTION_RANKS[ca[key]] ELSE 0

IdsOf(users) == {u["id"] : u \in {u \in SeqSet(users) : Has(u, "id")}}

\* C7: only_7s1_profile_ids holds exactly the ids of the product-A profiles of
\* the emails in only_7s1, each once, and no id of a profile of an email that
\* is in both, in only_7s2 or in no bucket.
C7_TaggedIds ==
    /\ SeqSet(only_7s1_profile_ids) =
          UNION {IdsOf(all_users_by_email[e]["7S1"]) : e \in SeqSet(only_7s1)}
    /\ \A x \in SeqSet(only_7s1_profile_ids) : Count(x, only_7s1_profile_ids) = 1
    /\ \A e \in GroupedEmails \ SeqSet(only_7s1) :
          \A g \in {"7S1", "7S2", "Other"} :
             IdsOf(all_users_by_email[e][g]) \cap SeqSet(only_7s1_profile_ids) = {}

C7_Witness ==
    /\ pc = "done"
    /\ Len(only_7s1_profile_ids) = 2
    /\ \E e \in SeqSet(only_7s1) : Cardinality(IdsOf(all_users_by_email[e]["7S1"])) = 2
    /\ \E e \in SeqSet(only_7s2) : IdsOf(all_users_by_email[e]["7S2"]) # {}

CategoryEmails(c) ==
    {e \in ProcessedEmails :
        CASE c = "only_7s1" -> NumA(e) >= 1 /\ NumB(e) = 0
          [] c = "only_7s2" -> NumB(e) >= 1 /\ NumA(e) = 0
          [] c = "both" -> NumA(e) >= 1 /\ NumB(e) >= 1}

\* C8: whatever the shuffle does, each bucket keeps exactly its emails, each
\* once, and the reported sample has at most 10 emails, all of the bucket,
\* none twice; the reported count is the bucket's size.
C8_SampleCapped ==
    \A c \in Categories :
        /\ pc \in {"shuffle", "done"} =>
              /\ SeqSet(bucket(c)) = CategoryEmails(c)
              /\ Len(bucket(c)) = Cardinality(CategoryEmails(c))
        /\ pc = "done" =>
              /\ Len(result[c].sample) <= 10
              /\ SeqSet(result[c].sample) \subseteq SeqSet(bucket(c))
              /\ \A e \in SeqSet(result[c].sample) : Count(e, result[c].sample) = 1
              /\ result[c].count = Cardinality(CategoryEmails(c))

C8_Witness ==
    /\ pc = "done"
    /\ result.only_7s1.count = 11
    /\ Len(result.only_7s1.sample) = 10
    /\ "e11" \in SeqSet(result.only_7s1.sample)
    /\ result.only_7s1.sample[1] # "e01"

RECURSIVE ProductProfileSum(_)
ProductProfileSum(emails) ==
    IF emails = <<>> THEN 0
    ELSE NumA(Head(emails)) + NumB(Head(emails)) + ProductProfileSum(Tail(emails))

\* C9: the both bucket's profile total is the sum of the product-A plus
\* product-B profile counts of its emails, hence at least twice its count.
C9_BothProfileTotal ==
    /\ profiles_in_both_category = ProductProfileSum(both)
    /\ profiles_in_both_category >= 2 * Len(both)
    /\ pc = "done" =>
          /\ result.both.total_profiles_in_this_category = ProductProfileSum(both)
          /\ result.both.total_profiles_in_this_category >= 2 * result.both.count
          /\ result.both.count = Len(both)

C9_Witness ==
    /\ pc = "done"
    /\ result.both.count = 1
    /\ result.both.total_profiles_in_this_category = 3

RECURSIVE Concat(_, _)
Concat(pages, n) == IF n = 0 THEN <<>> ELSE Concat(pages, n - 1) \o pages[n]

\* C10: a 429 response leaves the users and the cursor alone and is retried,
\* unless max_retries retries were already made in a row, when the run
\* aborts; every other response resets the retry counter; the users are the
\* pages fetched so far, in order, each once, and the function returns only
\* after the page without a next cursor.
C10_FetchRetry ==
    /\ [](/\ all_users = Concat(server_pages, page - 1)
          /\ retry_count \in 0..max_retries
          /\ fetch_pc = "returned" => page - 1 = Len(server_pages))
    /\ [][ /\ response_status' = 429 =>
                /\ all_users' = all_users
                /\ starting_after' = starting_after
                /\ page' = page
                /\ IF retry_count = max_retries
                   THEN fetch_pc' = "aborted"
                   ELSE fetch_pc' = "request" /\ retry_count' = retry_count + 1
           /\ response_status' \in {200, 400, 500} => retry_count' = 0
           /\ page' # page =>
                /\ page' = page + 1
                /\ all_users' = all_users \o server_pages[starting_after + 1]
                /\ starting_after + 1 = page
           /\ fetch_pc' = "returned" =>
                /\ response_status' = 200
                /\ page' = Len(server_pages) + 1 ]_vars

C10_Witness ==
    /\ fetch_pc = "request"
    /\ response_status = 429
    /\ retry_count = max_retries
    /\ page = 2
    /\ Len(all_users) = 2

RECURSIVE SumOf(_, _)
SumOf(f, S) ==
    IF S = {} THEN 0
    ELSE LET x == CHOOSE x \in S : TRUE IN f[x] + SumOf(f, S \ {x})

BreakdownTotal(breakdown) ==
    SumOf([t \in subscription_buckets |->
              breakdown[t]["regular"] + breakdown[t]["fee_waiver"]],
          subscription_buckets)

\* the cells of all buckets, as <<bucket, tier, flag>>
AllCells == Categories \X subscription_buckets \X {"regular", "fee_waiver"}

\* C11: for each of the three buckets the breakdown cells, over the six tiers
\* and both waiver flags, add up to the bucket's count; the step that
\* categorizes an email adds one to exactly one cell, a cell of the bucket the
\* email joins, and changes no cell for an email that joins no bucket.
C11_BreakdownSumsToCount ==
    /\ [](\A c \in Categories :
            /\ BreakdownTotal(subscription_counts[c]) = Len(bucket(c))
            /\ pc = "done" =>
                 /\ DOMAIN result[c].subscription_breakdown = subscription_buckets
                 /\ BreakdownTotal(result[c].subscription_breakdown) = result[c].count)
    /\ [][ idx' = idx + 1 =>
             LET e == email_order[idx + 1]
                 changed == {x \in AllCells :
                               subscription_counts'[x[1]][x[2]][x[3]]
                                  # subscription_counts[x[1]][x[2]][x[3]]}
                 joined == {c \in Categories :
                               CASE c = "only_7s1" -> Len(only_7s1') = Len(only_7s1) + 1
                                 [] c = "only_7s2" -> Len(only_7s2') = Len(only_7s2) + 1
                                 [] c = "both" -> Len(both') = Len(both) + 1}
             IN  /\ Cardinality(joined) <= 1
                 /\ Cardinality(changed) = Cardinality(joined)
                 /\ \A x \in changed :
                       /\ x[1] \in joined
                       /\ subscription_counts'[x[1]][x[2]][x[3]]
                             = subscription_counts[x[1]][x[2]][x[3]] + 1
                 /\ OtherOnly(e) => changed = {} ]_vars

C11_Witness ==
    /\ pc = "done"
    /\ result.both.count = 1
    /\ result.both.subscription_breakdown["Coach"]["fee_waiver"] = 1
    /\ result.only_7s2.count = 0
    /\ result.only_7s1.count = 0
    /\ \E e \in GroupedEmails : OtherOnly(e)

====
